---- MODULE Spec2Model ----
(***************************************************************************)
(* Eloquence auth backend: OTP issue / verify, session creation and the    *)
(* authorization gate of the LLM proxy.                                    *)
(*                                                                         *)
(* Time is counted in whole minutes (datetime.utcnow() read at the moment  *)
(* the request is served).  Timestamps are stored by the code as           *)
(* isoformat() strings and read back with fromisoformat(); that pair is    *)
(* lossless and the string order of isoformat() values is the order of     *)
(* the instants, so a stored timestamp is the minute count itself.         *)
(* Strings whose characters matter (emails, the allow-list setting, the    *)
(* Authorization header, tokens) are sequences of one-character strings.   *)
(***************************************************************************)
EXTENDS Integers, Sequences, FiniteSets, TLC

VARIABLES
    now,                 \* datetime.utcnow(), in minutes
    otpcodes,            \* table "otpcodes": set of entities
    usersessions,        \* table "usersessions": set of entities
    llm_allowed_emails,  \* Settings.llm_allowed_emails (fixed at start-up)
    nextRow,             \* number of uuid4 row keys drawn by save_otp
    nextToken,           \* number of session tokens drawn
    ticks,               \* number of steps the clock has made
    resp,                \* the response of the request served last at this instant
    hist,                \* per identity: what happened since its last issue
    handlers             \* per concurrent handler: where its verify_otp stands

vars == <<now, otpcodes, usersessions, llm_allowed_emails, nextRow, nextToken, ticks,
          resp, hist, handlers>>

----------------------------------------------------------------------------
(* Settings (config.py) *)

otp_expiry_minutes == 10
otp_max_attempts == 3
otp_rate_limit_minutes == 1
session_expiry_days == 30

(* timedelta(days = d) in minutes *)
MinutesPerDay == 1440

----------------------------------------------------------------------------
(* Bounds of the model *)

MaxSteps == 4            \* OTP records issued + sessions created + clock steps

----------------------------------------------------------------------------
(* Strings *)

LowerChar(c) ==
    CASE c = "A" -> "a"
      [] c = "B" -> "b"
      [] OTHER -> c

(* str.lower() *)
Lower(s) == [i \in DOMAIN s |-> LowerChar(s[i])]

IsSpace(c) == c = " "

RECURSIVE LStrip(_)
LStrip(s) ==
    IF s # <<>> /\ IsSpace(Head(s)) THEN LStrip(Tail(s)) ELSE s

RECURSIVE RStrip(_)
RStrip(s) ==
    IF s # <<>> /\ IsSpace(s[Len(s)]) THEN RStrip(SubSeq(s, 1, Len(s) - 1)) ELSE s

(* str.strip() *)
Strip(s) == RStrip(LStrip(s))

(* str.split(",") *)
RECURSIVE SplitComma(_)
SplitComma(s) ==
    IF \E i \in DOMAIN s : s[i] = ","
    THEN LET i == CHOOSE k \in DOMAIN s : s[k] = "," /\ \A j \in 1..(k - 1) : s[j] # ","
         IN  <<SubSeq(s, 1, i - 1)>> \o SplitComma(SubSeq(s, i + 1, Len(s)))
    ELSE <<s>>

(* startswith after lower-casing both strings *)
StartsWith_IgnoreCase(s, p) ==
    Len(s) >= Len(p) /\ Lower(SubSeq(s, 1, Len(p))) = Lower(p)

(* str.startswith(p) *)
StartsWith(s, p) == Len(s) >= Len(p) /\ SubSeq(s, 1, Len(p)) = p

RECURSIVE SelectNonBlankLower(_)
SelectNonBlankLower(parts) ==
    IF parts = <<>> THEN <<>>
    ELSE IF Strip(Head(parts)) # <<>>
         THEN <<Lower(Strip(Head(parts)))>> \o SelectNonBlankLower(Tail(parts))
         ELSE SelectNonBlankLower(Tail(parts))

----------------------------------------------------------------------------
(* Settings.llm_allowed_emails_list / is_email_allowed_for_llm *)

(* llm_allowed_emails_list without the "if email.strip()" filter *)
LlmAllowedEmailsList_KeepsBlank(setting) ==
    IF setting = <<>> THEN <<>>
    ELSE LET parts == SplitComma(setting)
         IN  [i \in DOMAIN parts |-> Lower(Strip(parts[i]))]

LlmAllowedEmailsList(setting) ==
    IF setting = <<>> THEN <<>>
    ELSE SelectNonBlankLower(SplitComma(setting))

(* is_email_allowed_for_llm that rejects everybody when the list is empty *)
IsEmailAllowedForLlm_FailClosed(setting, email) ==
    LET allowed == LlmAllowedEmailsList(setting)
    IN  \E i \in DOMAIN allowed : allowed[i] = Lower(email)

IsEmailAllowedForLlm(setting, email) ==
    LET allowed == LlmAllowedEmailsList(setting)
    IN  IF allowed = <<>> THEN TRUE
        ELSE \E i \in DOMAIN allowed : allowed[i] = Lower(email)

----------------------------------------------------------------------------
(* OTPService *)

CalculateExpiry(t) == t + otp_expiry_minutes

CalculateSessionExpiry(t) == t + session_expiry_days * MinutesPerDay

(* is_expired with the bound inclusive *)
IsExpired_AtExpiry(t, expiry_time) == t >= expiry_time

IsExpired(t, expiry_time) == t > expiry_time

(* (utcnow() - last_request_time).total_seconds() *)
TotalSeconds(minutes) == minutes * 60

(* a rate limit that lasts as long as the code *)
IsRateLimited_UntilExpiry(t, last_request_time) ==
    TotalSeconds(t - last_request_time) < otp_expiry_minutes * 60

(* no rate limit *)
IsRateLimited_Never(t, last_request_time) == FALSE

(* is_rate_limited with the bound inclusive *)
IsRateLimited_Inclusive(t, last_request_time) ==
    TotalSeconds(t - last_request_time) <= otp_rate_limit_minutes * 60

IsRateLimited(t, last_request_time) ==
    TotalSeconds(t - last_request_time) < otp_rate_limit_minutes * 60

(* secrets.token_urlsafe(32): the n-th token drawn *)
TokenChars == <<"1", "2", "3", "4", "5", "6", "7", "8", "9">>

GenerateSessionToken(n) == <<TokenChars[n]>>

----------------------------------------------------------------------------
(* StorageService, table "otpcodes" *)

NoTime == -1

(* save_otp whose entity never reaches the table *)
SaveOtp_Lost(table, email, code, expires_at, row_key, t) == table

(* save_otp that keeps the letter case of the email in the partition key *)
SaveOtp_KeepsCase(table, email, code, expires_at, row_key, t) ==
    table \cup {[PartitionKey |-> email, RowKey |-> row_key, code |-> code,
                 createdAt |-> t, expiresAt |-> expires_at, attempts |-> 0,
                 isUsed |-> FALSE, usedAt |-> NoTime]}

SaveOtp(table, email, code, expires_at, row_key, t) ==
    table \cup {[PartitionKey |-> Lower(email), RowKey |-> row_key, code |-> code,
                 createdAt |-> t, expiresAt |-> expires_at, attempts |-> 0,
                 isUsed |-> FALSE, usedAt |-> NoTime]}

(* get_latest_otp without the "PartitionKey eq" filter *)
GetLatestOtp_AnyEmail(table, email) ==
    LET entities == {e \in table : ~e.isUsed}
    IN  {e \in entities : \A f \in entities : f.createdAt <= e.createdAt}

(* get_latest_otp without the "isUsed eq false" filter *)
GetLatestOtp_IncludesUsed(table, email) ==
    LET entities == {e \in table : e.PartitionKey = Lower(email)}
    IN  {e \in entities : \A f \in entities : f.createdAt <= e.createdAt}

(* The entities get_latest_otp may return; the empty set stands for None.  *)
(* Entities with the same createdAt are ordered by their random row keys,  *)
(* so any of them may come first.                                          *)
GetLatestOtp(table, email) ==
    LET entities == {e \in table : e.PartitionKey = Lower(email) /\ ~e.isUsed}
    IN  {e \in entities : \A f \in entities : f.createdAt <= e.createdAt}

(* increment_otp_attempts whose update is lost *)
IncrementOtpAttempts_Lost(table, email, row_key) == table

IncrementOtpAttempts(table, email, row_key) ==
    {IF e.PartitionKey = Lower(email) /\ e.RowKey = row_key
     THEN [e EXCEPT !.attempts = e.attempts + 1] ELSE e : e \in table}

(* mark_otp_used that records usedAt but leaves isUsed alone *)
MarkOtpUsed_OnlyUsedAt(table, email, row_key, t) ==
    {IF e.PartitionKey = Lower(email) /\ e.RowKey = row_key
     THEN [e EXCEPT !.usedAt = t] ELSE e : e \in table}

(* mark_otp_used that also counts the verification as an attempt *)
MarkOtpUsed_CountsAttempt(table, email, row_key, t) ==
    {IF e.PartitionKey = Lower(email) /\ e.RowKey = row_key
     THEN [e EXCEPT !.isUsed = TRUE, !.usedAt = t, !.attempts = e.attempts + 1]
     ELSE e : e \in table}

MarkOtpUsed(table, email, row_key, t) ==
    {IF e.PartitionKey = Lower(email) /\ e.RowKey = row_key
     THEN [e EXCEPT !.isUsed = TRUE, !.usedAt = t] ELSE e : e \in table}

(* delete_old_otps with the filter "... and isUsed eq true" *)
DeleteOldOtps_OnlyUsed(table, email) ==
    {e \in table : ~(e.PartitionKey = Lower(email) /\ e.isUsed)}

(* delete_old_otps with the filter "... and isUsed eq false" *)
DeleteOldOtps_OnlyUnused(table, email) ==
    {e \in table : ~(e.PartitionKey = Lower(email) /\ ~e.isUsed)}

DeleteOldOtps(table, email) ==
    {e \in table : e.PartitionKey # Lower(email)}

----------------------------------------------------------------------------
(* StorageService, table "usersessions" *)

CreateSessionEntity(email, token, expires_at, user_id, t) ==
    [PartitionKey |-> Lower(email), RowKey |-> token, userId |-> user_id,
     createdAt |-> t, expiresAt |-> expires_at, lastAccessedAt |-> t]

(* create_session whose entity never reaches the table *)
CreateSession_Lost(table, email, token, expires_at, user_id, t) == table

(* create_session that replaces the identity's earlier sessions *)
CreateSession_ReplacesOld(table, email, token, expires_at, user_id, t) ==
    {e \in table : e.PartitionKey # Lower(email)}
        \cup {CreateSessionEntity(email, token, expires_at, user_id, t)}

CreateSession(table, email, token, expires_at, user_id, t) ==
    table \cup {CreateSessionEntity(email, token, expires_at, user_id, t)}

(* expires_at < datetime.utcnow() with the bound inclusive *)
SessionExpired_AtExpiry(expires_at, t) == expires_at <= t

(* validate_session_and_whitelist: expires_at < datetime.utcnow() *)
SessionExpired(expires_at, t) == expires_at < t

(* The entities get_session may return; the empty set stands for None. *)
GetSession(table, token) ==
    {e \in table : e.RowKey = token}

----------------------------------------------------------------------------
(* The budget of a run: every issued OTP record, created session and step  *)
(* of the clock uses one unit.                                             *)

Spent == (nextRow - 1) + (nextToken - 1) + ticks

WithinBudget == Spent < MaxSteps

----------------------------------------------------------------------------
(* Requests the model issues *)

Emails == {<<"a">>, <<"A">>, <<"b">>}

Identities == {Lower(e) : e \in Emails}

Codes == {"482913", "000000"}

(* values of the llm_allowed_emails setting *)
AllowSettings ==
    {<<>>, <<"A">>, <<" ", "b", ",", ",", "a">>, <<",", " ">>, <<"A", " ", ",", "b">>}

Bearer == <<"B", "e", "a", "r", "e", "r", " ">>

Tokens == {GenerateSessionToken(n) : n \in 1..MaxSteps}

(* Authorization headers: none, well-formed ones for every token that can  *)
(* be drawn and for one that is never drawn, a bare token, and a prefix    *)
(* in the wrong letter case.                                               *)
Headers ==
    {<<>>, Bearer, Bearer \o <<"0">>} \cup {Bearer \o t : t \in Tokens}
        \cup {GenerateSessionToken(1), Lower(Bearer) \o GenerateSessionToken(1)}

(* steps of the clock between requests to the auth router: a minute, or    *)
(* the lifetime of an OTP                                                  *)
ClockSteps == {1, otp_expiry_minutes}

(* steps of the clock between requests to the LLM proxy: a minute, or the  *)
(* lifetime of a session                                                   *)
LlmClockSteps == {1, session_expiry_days * MinutesPerDay}

(* the code every request of the LLM-proxy runs carries *)
LlmCode == "482913"

----------------------------------------------------------------------------
(* Responses *)

NoString == <<>>

Response(op, email, code, authorization, status, outcome, calls, session) ==
    [op |-> op, email |-> email, code |-> code, authorization |-> authorization,
     status |-> status, outcome |-> outcome, calls |-> calls, session |-> session]

(* no request has been served at this instant *)
NoResponse == Response("none", NoString, "", NoString, 0, "none", <<>>, {})

NoHist == [issuedAt |-> NoTime, invalid |-> 0, verified |-> {}, succeeded |-> {}]

(* The handlers that may run verify_otp at the same time (workers or       *)
(* replicas of the service), and a handler that is serving no request.     *)
Handlers == {"h1", "h2"}

Idle == [pc |-> "idle", email |-> NoString, code |-> "", row_key |-> 0,
         entity |-> {}]

InitWith(settings) ==
    /\ now = 0
    /\ otpcodes = {}
    /\ usersessions = {}
    /\ llm_allowed_emails \in settings
    /\ nextRow = 1
    /\ nextToken = 1
    /\ ticks = 0
    /\ resp = NoResponse
    /\ hist = [id \in Identities |-> NoHist]
    /\ handlers = [h \in Handlers |-> Idle]

(* llm_allowed_emails: str = "" *)
Init == InitWith({<<>>})

InitLlm == InitWith(AllowSettings)

----------------------------------------------------------------------------
(* POST /auth/send-otp (routers/auth.py).  code is the value generate_otp  *)
(* draws, email_sent the result of EmailService.send_otp_email.  The row   *)
(* key save_otp draws with uuid4 is the number of the record.  hist is     *)
(* history kept for the properties, not state of the program.              *)

(* The status send_otp answers with after the delivery adapter returned *)
SendOtpStatus_IgnoresFailure(email_sent) == 200

SendOtpStatus(email_sent) == IF email_sent THEN 200 ELSE 500

SendOtp(email, code, email_sent) ==
    LET latest == GetLatestOtp(otpcodes, email)
    IN  \/ /\ \E latest_otp \in latest : IsRateLimited(now, latest_otp.createdAt)
           /\ resp' = Response("send-otp", email, "", NoString, 429, "RateLimited",
                               <<"get_latest_otp">>, {})
           /\ UNCHANGED <<handlers, now, otpcodes, usersessions, llm_allowed_emails,
                          nextRow, nextToken, ticks, hist>>
        \/ /\ \/ latest = {}
              \/ \E latest_otp \in latest : ~IsRateLimited(now, latest_otp.createdAt)
           /\ WithinBudget
           /\ otpcodes' = SaveOtp(DeleteOldOtps(otpcodes, email), email, code,
                                  CalculateExpiry(now), nextRow, now)
           /\ nextRow' = nextRow + 1
           /\ resp' = Response("send-otp", email, code, NoString,
                               SendOtpStatus(email_sent),
                               IF email_sent THEN "Sent" ELSE "SendFailed",
                               <<"get_latest_otp", "delete_old_otps", "save_otp",
                                 "send_otp_email">>, {})
           /\ hist' = [hist EXCEPT ![Lower(email)] =
                          [issuedAt |-> now, invalid |-> 0, verified |-> {},
                           succeeded |-> {}]]
           /\ UNCHANGED <<handlers, now, usersessions, llm_allowed_emails, nextToken, ticks>>

----------------------------------------------------------------------------
(* POST /auth/verify-otp (routers/auth.py).  The request model admits only *)
(* six-digit codes.  The token and the user id create_session draws are    *)
(* fresh; both are numbered by the session.                                *)

(* The "Check max attempts" condition of verify_otp *)
MaxAttemptsReached_Strict(attempts) == attempts > otp_max_attempts

MaxAttemptsReached_Never(attempts) == FALSE

MaxAttemptsReached(attempts) == attempts >= otp_max_attempts

VerifyOtp(email, code) ==
    LET latest == GetLatestOtp(otpcodes, email)
    IN  \/ /\ latest = {}
           /\ resp' = Response("verify-otp", email, code, NoString, 400, "NotFound",
                               <<"get_latest_otp">>, {})
           /\ UNCHANGED <<handlers, now, otpcodes, usersessions, llm_allowed_emails,
                          nextRow, nextToken, ticks, hist>>
        \/ \E otp_record \in latest :
             IF IsExpired(now, otp_record.expiresAt)
             THEN /\ resp' = Response("verify-otp", email, code, NoString, 400,
                                      "Expired", <<"get_latest_otp">>, {})
                  /\ UNCHANGED <<handlers, now, otpcodes, usersessions, llm_allowed_emails,
                                 nextRow, nextToken, ticks, hist>>
             ELSE IF MaxAttemptsReached(otp_record.attempts)
             THEN /\ resp' = Response("verify-otp", email, code, NoString, 400,
                                      "AttemptsExhausted", <<"get_latest_otp">>, {})
                  /\ UNCHANGED <<handlers, now, otpcodes, usersessions, llm_allowed_emails,
                                 nextRow, nextToken, ticks, hist>>
             ELSE IF otp_record.code # code
             THEN /\ otpcodes' = IncrementOtpAttempts(otpcodes, email, otp_record.RowKey)
                  /\ resp' = Response("verify-otp", email, code, NoString, 400,
                                      "InvalidCode",
                                      <<"get_latest_otp", "increment_otp_attempts">>, {})
                  /\ hist' = [hist EXCEPT ![Lower(email)].invalid = @ + 1]
                  /\ UNCHANGED <<handlers, now, usersessions, llm_allowed_emails,
                                 nextRow, nextToken, ticks>>
             ELSE /\ WithinBudget
                  /\ otpcodes' = MarkOtpUsed(otpcodes, email, otp_record.RowKey, now)
                  /\ LET session_token == GenerateSessionToken(nextToken)
                         session == CreateSessionEntity(email, session_token,
                                        CalculateSessionExpiry(now), nextToken, now)
                     IN  /\ usersessions' = CreateSession(usersessions, email,
                                                session_token,
                                                CalculateSessionExpiry(now),
                                                nextToken, now)
                         /\ resp' = Response("verify-otp", email, code, NoString,
                                             200, "Success",
                                             <<"get_latest_otp", "mark_otp_used",
                                               "create_session">>, {session})
                  /\ nextToken' = nextToken + 1
                  /\ hist' = [hist EXCEPT
                                ![Lower(email)].verified = @ \cup {code},
                                ![Lower(email)].succeeded = @ \cup {otp_record.RowKey}]
                  /\ UNCHANGED <<handlers, now, llm_allowed_emails, nextRow, ticks>>

----------------------------------------------------------------------------
(* validate_session_and_whitelist (routers/llm.py), the gate in front of   *)
(* every POST /llm/* endpoint                                              *)

ValidateSessionAndWhitelist(authorization) ==
    /\ UNCHANGED <<handlers, now, otpcodes, usersessions, llm_allowed_emails,
                   nextRow, nextToken, ticks, hist>>
    /\ IF authorization = <<>> \/ ~StartsWith(authorization, Bearer)
       THEN resp' = Response("llm", NoString, "", authorization, 401,
                             "MalformedHeader", <<>>, {})
       ELSE LET token == SubSeq(authorization, 8, Len(authorization))
                found == GetSession(usersessions, token)
            IN  \/ /\ found = {}
                   /\ resp' = Response("llm", NoString, "", authorization, 401,
                                       "InvalidSession", <<"get_session">>, {})
                \/ \E session \in found :
                     IF SessionExpired(session.expiresAt, now)
                     THEN resp' = Response("llm", NoString, "", authorization, 401,
                                           "SessionExpired", <<"get_session">>, {})
                     ELSE IF ~IsEmailAllowedForLlm(llm_allowed_emails,
                                                   session.PartitionKey)
                     THEN resp' = Response("llm", NoString, "", authorization, 403,
                                           "Forbidden", <<"get_session">>, {})
                     ELSE resp' = Response("llm", NoString, "", authorization, 200,
                                           "Authorized", <<"get_session">>, {session})

----------------------------------------------------------------------------
(* The clock moves between requests *)

Tick(d) ==
    /\ WithinBudget
    /\ now' = now + d
    /\ ticks' = ticks + 1
    /\ resp' = NoResponse
    /\ UNCHANGED <<otpcodes, usersessions, llm_allowed_emails, nextRow, nextToken,
                   hist, handlers>>

(* The auth router *)
Next ==
    \/ \E email \in Emails, code \in Codes, email_sent \in BOOLEAN :
           SendOtp(email, code, email_sent)
    \/ \E email \in Emails, code \in Codes : VerifyOtp(email, code)
    \/ \E d \in ClockSteps : Tick(d)

Spec == Init /\ [][Next]_vars

(* The auth router and the LLM proxy's gate, under every allow-list        *)
(* setting; logins here use one code and a working mail service.           *)
NextLlm ==
    \/ \E email \in Emails : SendOtp(email, LlmCode, TRUE)
    \/ \E email \in Emails : VerifyOtp(email, LlmCode)
    \/ \E authorization \in Headers : ValidateSessionAndWhitelist(authorization)
    \/ \E d \in LlmClockSteps : Tick(d)

SpecLlm == InitLlm /\ [][NextLlm]_vars

----------------------------------------------------------------------------
(* Concurrent handlers.  verify_otp makes up to five store calls; between  *)
(* two of them other handlers run.  Each action below is one store call of *)
(* one handler together with the local computation that follows it.  resp  *)
(* is the response of the step just taken, if it ended a request.          *)

(* table_client.get_entity(email.lower(), row_key); the empty set stands   *)
(* for the ResourceNotFoundError.                                          *)
GetEntity(table, email, row_key) ==
    {e \in table : e.PartitionKey = Lower(email) /\ e.RowKey = row_key}

(* table_client.update_entity(entity, mode="merge") with an entity that    *)
(* carries every property: unconditional, fails when the entity is gone.   *)
UpdateEntity(table, entity) ==
    IF \E e \in table : e.PartitionKey = entity.PartitionKey /\ e.RowKey = entity.RowKey
    THEN {e \in table : ~(e.PartitionKey = entity.PartitionKey
                            /\ e.RowKey = entity.RowKey)} \cup {entity}
    ELSE table

(* an increment the store makes on the value it holds *)
IncrementAndUpdate_Atomic(table, entity) ==
    {IF e.PartitionKey = entity.PartitionKey /\ e.RowKey = entity.RowKey
     THEN [e EXCEPT !.attempts = @ + 1] ELSE e : e \in table}

(* entity['attempts'] = entity.get('attempts', 0) + 1; update_entity(...)  *)
IncrementAndUpdate(table, entity) ==
    UpdateEntity(table, [entity EXCEPT !.attempts = @ + 1])

(* entity['isUsed'] = True; entity['usedAt'] = ...; update_entity(...)     *)
MarkUsedAndUpdate(table, entity, t) ==
    UpdateEntity(table, [entity EXCEPT !.isUsed = TRUE, !.usedAt = t])

Respond(h, r) ==
    /\ resp' = r
    /\ handlers' = [handlers EXCEPT ![h] = Idle]

Continue(h, pc, entity) ==
    /\ resp' = NoResponse
    /\ handlers' = [handlers EXCEPT ![h].pc = pc, ![h].entity = entity]

(* get_latest_otp and the checks made on the record it returned *)
VerifyOtpBegin(h, email, code) ==
    /\ handlers[h].pc = "idle"
    /\ UNCHANGED <<now, otpcodes, usersessions, llm_allowed_emails, nextRow,
                   nextToken, ticks, hist>>
    /\ LET latest == GetLatestOtp(otpcodes, email)
       IN  \/ /\ latest = {}
              /\ Respond(h, Response("verify-otp", email, code, NoString, 400,
                                     "NotFound", <<"get_latest_otp">>, {}))
           \/ \E otp_record \in latest :
                IF IsExpired(now, otp_record.expiresAt)
                THEN Respond(h, Response("verify-otp", email, code, NoString, 400,
                                         "Expired", <<"get_latest_otp">>, {}))
                ELSE IF MaxAttemptsReached(otp_record.attempts)
                THEN Respond(h, Response("verify-otp", email, code, NoString, 400,
                                         "AttemptsExhausted", <<"get_latest_otp">>,
                                         {}))
                ELSE /\ resp' = NoResponse
                     /\ handlers' = [handlers EXCEPT ![h] =
                           [pc |-> IF otp_record.code # code
                                   THEN "increment_get" ELSE "mark_get",
                            email |-> email, code |-> code,
                            row_key |-> otp_record.RowKey, entity |-> {}]]

(* increment_otp_attempts: get_entity *)
IncrementOtpAttemptsGet(h) ==
    /\ handlers[h].pc = "increment_get"
    /\ UNCHANGED <<now, otpcodes, usersessions, llm_allowed_emails, nextRow,
                   nextToken, ticks, hist>>
    /\ Continue(h, "increment_update",
                GetEntity(otpcodes, handlers[h].email, handlers[h].row_key))

(* increment_otp_attempts: update_entity, or the handling of the exception *)
(* of either call, and the 400 that verify_otp raises after it             *)
IncrementOtpAttemptsUpdate(h) ==
    /\ handlers[h].pc = "increment_update"
    /\ otpcodes' = IF handlers[h].entity = {} THEN otpcodes
                   ELSE LET entity == CHOOSE e \in handlers[h].entity : TRUE
                        IN  IncrementAndUpdate(otpcodes, entity)
    /\ hist' = [hist EXCEPT ![Lower(handlers[h].email)].invalid = @ + 1]
    /\ Respond(h, Response("verify-otp", handlers[h].email, handlers[h].code,
                           NoString, 400, "InvalidCode",
                           <<"get_latest_otp", "increment_otp_attempts">>, {}))
    /\ UNCHANGED <<now, usersessions, llm_allowed_emails, nextRow, nextToken, ticks>>

(* mark_otp_used: get_entity *)
MarkOtpUsedGet(h) ==
    /\ handlers[h].pc = "mark_get"
    /\ UNCHANGED <<now, otpcodes, usersessions, llm_allowed_emails, nextRow,
                   nextToken, ticks, hist>>
    /\ Continue(h, "mark_update",
                GetEntity(otpcodes, handlers[h].email, handlers[h].row_key))

(* mark_otp_used: update_entity, or the handling of the exception of       *)
(* either call.  The handler keeps, for the record only, the entity it has *)
(* written: none when the record was gone.                                 *)
MarkOtpUsedUpdate(h) ==
    /\ handlers[h].pc = "mark_update"
    /\ otpcodes' = IF handlers[h].entity = {} THEN otpcodes
                   ELSE LET entity == CHOOSE e \in handlers[h].entity : TRUE
                        IN  MarkUsedAndUpdate(otpcodes, entity, now)
    /\ Continue(h, "create_session",
                {e \in otpcodes' \ otpcodes :
                    e.PartitionKey = Lower(handlers[h].email)
                      /\ e.RowKey = handlers[h].row_key /\ e.isUsed})
    /\ UNCHANGED <<now, usersessions, llm_allowed_emails, nextRow, nextToken,
                   ticks, hist>>

(* create_session and the 200 *)
VerifyOtpCreateSession(h) ==
    /\ handlers[h].pc = "create_session"
    /\ WithinBudget
    /\ LET email == handlers[h].email
           session_token == GenerateSessionToken(nextToken)
           session == CreateSessionEntity(email, session_token,
                          CalculateSessionExpiry(now), nextToken, now)
       IN  /\ usersessions' = CreateSession(usersessions, email, session_token,
                                            CalculateSessionExpiry(now),
                                            nextToken, now)
           /\ Respond(h, Response("verify-otp", email, handlers[h].code, NoString,
                                  200, "Success",
                                  <<"get_latest_otp", "mark_otp_used",
                                    "create_session">>, {session}))
           /\ hist' = [hist EXCEPT
                         ![Lower(email)].verified = @ \cup {handlers[h].code},
                         ![Lower(email)].succeeded = @ \cup {handlers[h].row_key}]
    /\ nextToken' = nextToken + 1
    /\ UNCHANGED <<now, otpcodes, llm_allowed_emails, nextRow, ticks>>

(* The requests of the concurrent handlers are for one email *)
ConcEmails == {<<"A">>}

(* Handlers that verify concurrently; issues and clock steps come between  *)
(* their store calls.                                                      *)
NextConc ==
    \/ \E email \in ConcEmails : SendOtp(email, LlmCode, TRUE)
    \/ \E h \in Handlers, email \in ConcEmails, code \in Codes :
           VerifyOtpBegin(h, email, code)
    \/ \E h \in Handlers : IncrementOtpAttemptsGet(h)
    \/ \E h \in Handlers : IncrementOtpAttemptsUpdate(h)
    \/ \E h \in Handlers : MarkOtpUsedGet(h)
    \/ \E h \in Handlers : MarkOtpUsedUpdate(h)
    \/ \E h \in Handlers : VerifyOtpCreateSession(h)
    \/ \E d \in ClockSteps : Tick(d)

SpecConc == Init /\ [][NextConc]_vars

----------------------------------------------------------------------------
(* Concurrent send_otp handlers.  send_otp makes four store calls (the     *)
(* query and the deletes of delete_old_otps count as two) and one call of  *)
(* the delivery adapter; between two of them other handlers run.           *)

(* the entities of a list that delete_old_otps deletes one by one *)
DeleteEntities(table, entities) ==
    {e \in table : \A d \in entities :
                     ~(e.PartitionKey = d.PartitionKey /\ e.RowKey = d.RowKey)}

(* get_latest_otp and the rate-limit check *)
SendOtpBegin(h, email, code) ==
    /\ handlers[h].pc = "idle"
    /\ UNCHANGED <<now, otpcodes, usersessions, llm_allowed_emails, nextRow,
                   nextToken, ticks, hist>>
    /\ IF \E latest_otp \in GetLatestOtp(otpcodes, email) :
            IsRateLimited(now, latest_otp.createdAt)
       THEN Respond(h, Response("send-otp", email, "", NoString, 429,
                                "RateLimited", <<"get_latest_otp">>, {}))
       ELSE /\ resp' = NoResponse
            /\ handlers' = [handlers EXCEPT ![h] =
                  [pc |-> "delete_query", email |-> email, code |-> code,
                   row_key |-> 0, entity |-> {}]]

(* delete_old_otps: query_entities *)
DeleteOldOtpsQuery(h) ==
    /\ handlers[h].pc = "delete_query"
    /\ UNCHANGED <<now, otpcodes, usersessions, llm_allowed_emails, nextRow,
                   nextToken, ticks, hist>>
    /\ Continue(h, "delete_entities",
                {e \in otpcodes : e.PartitionKey = Lower(handlers[h].email)})

(* delete_old_otps: delete_entity for every entity of the list *)
DeleteOldOtpsDelete(h) ==
    /\ handlers[h].pc = "delete_entities"
    /\ otpcodes' = DeleteEntities(otpcodes, handlers[h].entity)
    /\ Continue(h, "save_otp", {})
    /\ UNCHANGED <<now, usersessions, llm_allowed_emails, nextRow, nextToken,
                   ticks, hist>>

(* generate_otp, calculate_expiry, save_otp *)
SendOtpSave(h) ==
    /\ handlers[h].pc = "save_otp"
    /\ WithinBudget
    /\ otpcodes' = SaveOtp(otpcodes, handlers[h].email, handlers[h].code,
                           CalculateExpiry(now), nextRow, now)
    /\ nextRow' = nextRow + 1
    /\ hist' = [hist EXCEPT ![Lower(handlers[h].email)] =
                   [issuedAt |-> now, invalid |-> 0, verified |-> {},
                    succeeded |-> {}]]
    /\ resp' = NoResponse
    /\ handlers' = [handlers EXCEPT ![h].pc = "send_otp_email",
                                    ![h].row_key = nextRow]
    /\ UNCHANGED <<now, usersessions, llm_allowed_emails, nextToken, ticks>>

(* send_otp_email and the response *)
SendOtpEmail(h, email_sent) ==
    /\ handlers[h].pc = "send_otp_email"
    /\ UNCHANGED <<now, otpcodes, usersessions, llm_allowed_emails, nextRow,
                   nextToken, ticks, hist>>
    /\ Respond(h, Response("send-otp", handlers[h].email, handlers[h].code,
                           NoString, SendOtpStatus(email_sent),
                           IF email_sent THEN "Sent" ELSE "SendFailed",
                           <<"get_latest_otp", "delete_old_otps", "save_otp",
                             "send_otp_email">>, {}))

NextConcSend ==
    \/ \E h \in Handlers, email \in ConcEmails, code \in Codes :
           SendOtpBegin(h, email, code)
    \/ \E h \in Handlers : DeleteOldOtpsQuery(h)
    \/ \E h \in Handlers : DeleteOldOtpsDelete(h)
    \/ \E h \in Handlers : SendOtpSave(h)
    \/ \E h \in Handlers, email_sent \in BOOLEAN : SendOtpEmail(h, email_sent)
    \/ \E d \in ClockSteps : Tick(d)

SpecConcSend == Init /\ [][NextConcSend]_vars

----------------------------------------------------------------------------
(* A store and a delivery adapter that may fail.  Handlers run one after   *)
(* another; in a request every store call named in "failed" raises.        *)
(* get_latest_otp, get_session, increment_otp_attempts, mark_otp_used and  *)
(* delete_old_otps catch the exception; save_otp and create_session let it *)
(* pass, and the framework answers 500.                                    *)

(* the entry of a call in the trace of a response *)
Called(name, failed) == IF name \in failed THEN <<name, "raised">> ELSE <<name>>

(* what delete_old_otps may have deleted when one of its calls raised: not *)
(* the whole list                                                          *)
PartlyDeleted(table, email) ==
    LET entities == {e \in table : e.PartitionKey = Lower(email)}
    IN  {d \in SUBSET entities : d # entities \/ entities = {}}

SendOtpWithFailures(email, code, email_sent, failed) ==
    LET latest == IF "get_latest_otp" \in failed THEN {}
                  ELSE GetLatestOtp(otpcodes, email)
    IN  \/ /\ \E latest_otp \in latest : IsRateLimited(now, latest_otp.createdAt)
           /\ resp' = Response("send-otp", email, "", NoString, 429, "RateLimited",
                               <<"get_latest_otp">>, {})
           /\ UNCHANGED <<handlers, now, otpcodes, usersessions, llm_allowed_emails,
                          nextRow, nextToken, ticks, hist>>
        \/ /\ \/ latest = {}
              \/ \E latest_otp \in latest : ~IsRateLimited(now, latest_otp.createdAt)
           /\ \E deleted \in IF "delete_old_otps" \in failed
                             THEN PartlyDeleted(otpcodes, email)
                             ELSE {{e \in otpcodes : e.PartitionKey = Lower(email)}} :
                LET cleaned == DeleteEntities(otpcodes, deleted)
                    calls == Called("get_latest_otp", failed)
                               \o Called("delete_old_otps", failed)
                               \o Called("save_otp", failed)
                IN  IF "save_otp" \in failed
                    THEN /\ otpcodes' = cleaned
                         /\ resp' = Response("send-otp", email, code, NoString, 500,
                                             "StoreError", calls, {})
                         /\ UNCHANGED <<nextRow, hist>>
                    ELSE /\ WithinBudget
                         /\ otpcodes' = SaveOtp(cleaned, email, code,
                                                CalculateExpiry(now), nextRow, now)
                         /\ nextRow' = nextRow + 1
                         /\ resp' = Response("send-otp", email, code, NoString,
                                             SendOtpStatus(email_sent),
                                             IF email_sent THEN "Sent"
                                                           ELSE "SendFailed",
                                             calls \o <<"send_otp_email">>, {})
                         /\ hist' = [hist EXCEPT ![Lower(email)] =
                                        [issuedAt |-> now, invalid |-> 0,
                                         verified |-> {}, succeeded |-> {}]]
           /\ UNCHANGED <<handlers, now, usersessions, llm_allowed_emails,
                          nextToken, ticks>>

VerifyOtpWithFailures(email, code, failed) ==
    LET latest == IF "get_latest_otp" \in failed THEN {}
                  ELSE GetLatestOtp(otpcodes, email)
        read == Called("get_latest_otp", failed)
    IN  \/ /\ latest = {}
           /\ resp' = Response("verify-otp", email, code, NoString, 400, "NotFound",
                               read, {})
           /\ UNCHANGED <<handlers, now, otpcodes, usersessions, llm_allowed_emails,
                          nextRow, nextToken, ticks, hist>>
        \/ \E otp_record \in latest :
             IF IsExpired(now, otp_record.expiresAt)
             THEN /\ resp' = Response("verify-otp", email, code, NoString, 400,
                                      "Expired", read, {})
                  /\ UNCHANGED <<handlers, now, otpcodes, usersessions,
                                 llm_allowed_emails, nextRow, nextToken, ticks, hist>>
             ELSE IF MaxAttemptsReached(otp_record.attempts)
             THEN /\ resp' = Response("verify-otp", email, code, NoString, 400,
                                      "AttemptsExhausted", read, {})
                  /\ UNCHANGED <<handlers, now, otpcodes, usersessions,
                                 llm_allowed_emails, nextRow, nextToken, ticks, hist>>
             ELSE IF otp_record.code # code
             THEN /\ hist[Lower(email)].invalid < MaxSteps
                  /\ otpcodes' = IF "increment_otp_attempts" \in failed THEN otpcodes
                                 ELSE IncrementOtpAttempts(otpcodes, email,
                                                           otp_record.RowKey)
                  /\ resp' = Response("verify-otp", email, code, NoString, 400,
                                      "InvalidCode",
                                      read \o Called("increment_otp_attempts", failed),
                                      {})
                  /\ hist' = [hist EXCEPT ![Lower(email)].invalid = @ + 1]
                  /\ UNCHANGED <<handlers, now, usersessions, llm_allowed_emails,
                                 nextRow, nextToken, ticks>>
             ELSE /\ otpcodes' = IF "mark_otp_used" \in failed THEN otpcodes
                                 ELSE MarkOtpUsed(otpcodes, email, otp_record.RowKey,
                                                  now)
                  /\ LET session_token == GenerateSessionToken(nextToken)
                         session == CreateSessionEntity(email, session_token,
                                        CalculateSessionExpiry(now), nextToken, now)
                         calls == read \o Called("mark_otp_used", failed)
                                       \o Called("create_session", failed)
                     IN  IF "create_session" \in failed
                         THEN /\ resp' = Response("verify-otp", email, code, NoString,
                                                  500, "StoreError", calls, {})
                              /\ UNCHANGED <<usersessions, nextToken, hist>>
                         ELSE /\ WithinBudget
                              /\ usersessions' = CreateSession(usersessions, email,
                                                     session_token,
                                                     CalculateSessionExpiry(now),
                                                     nextToken, now)
                              /\ resp' = Response("verify-otp", email, code, NoString,
                                                  200, "Success", calls, {session})
                              /\ nextToken' = nextToken + 1
                              /\ hist' = [hist EXCEPT
                                    ![Lower(email)].verified = @ \cup {code},
                                    ![Lower(email)].succeeded =
                                        @ \cup {otp_record.RowKey}]
                  /\ UNCHANGED <<handlers, now, llm_allowed_emails, nextRow, ticks>>

ValidateSessionWithFailures(authorization, failed) ==
    /\ UNCHANGED <<handlers, now, otpcodes, usersessions, llm_allowed_emails,
                   nextRow, nextToken, ticks, hist>>
    /\ IF authorization = <<>> \/ ~StartsWith(authorization, Bearer)
       THEN resp' = Response("llm", NoString, "", authorization, 401,
                             "MalformedHeader", <<>>, {})
       ELSE LET token == SubSeq(authorization, 8, Len(authorization))
                found == IF "get_session" \in failed THEN {}
                         ELSE GetSession(usersessions, token)
                read == Called("get_session", failed)
            IN  \/ /\ found = {}
                   /\ resp' = Response("llm", NoString, "", authorization, 401,
                                       "InvalidSession", read, {})
                \/ \E session \in found :
                     IF SessionExpired(session.expiresAt, now)
                     THEN resp' = Response("llm", NoString, "", authorization, 401,
                                           "SessionExpired", read, {})
                     ELSE IF ~IsEmailAllowedForLlm(llm_allowed_emails,
                                                   session.PartitionKey)
                     THEN resp' = Response("llm", NoString, "", authorization, 403,
                                           "Forbidden", read, {})
                     ELSE resp' = Response("llm", NoString, "", authorization, 200,
                                           "Authorized", read, {session})

(* headers of the requests to the gate: none, one for the first token drawn *)
(* and one for a token never drawn                                          *)
FaultyHeaders == {<<>>, Bearer \o GenerateSessionToken(1), Bearer \o <<"0">>}

(* Requests for one email while the store calls of "failing" may raise and *)
(* the adapter returns one of "deliveries"                                 *)
(* the store calls of send_otp, of verify_otp and of the gate *)
SendOtpCalls == {"get_latest_otp", "delete_old_otps", "save_otp"}

VerifyOtpCalls ==
    {"get_latest_otp", "increment_otp_attempts", "mark_otp_used", "create_session"}

GateCalls == {"get_session"}

NextWithFailures(failing, deliveries) ==
    \/ \E email \in ConcEmails, code \in Codes, email_sent \in deliveries,
          failed \in SUBSET (failing \cap SendOtpCalls) :
           SendOtpWithFailures(email, code, email_sent, failed)
    \/ \E email \in ConcEmails, code \in Codes,
          failed \in SUBSET (failing \cap VerifyOtpCalls) :
           VerifyOtpWithFailures(email, code, failed)
    \/ \E authorization \in FaultyHeaders,
          failed \in SUBSET (failing \cap GateCalls) :
           ValidateSessionWithFailures(authorization, failed)
    \/ \E d \in ClockSteps : Tick(d)

(* only the reads of the decision paths may raise *)
SpecReadFails ==
    Init /\ [][NextWithFailures({"get_latest_otp", "get_session"}, BOOLEAN)]_vars

(* only the updates of an OTP record may raise *)
SpecUpdateFails ==
    Init /\ [][NextWithFailures({"increment_otp_attempts", "mark_otp_used"},
                                BOOLEAN)]_vars

(* only the creates may raise *)
SpecCreateFails ==
    Init /\ [][NextWithFailures({"save_otp", "create_session"}, BOOLEAN)]_vars

(* only the cleanup of old OTP records may raise *)
SpecCleanupFails == Init /\ [][NextWithFailures({"delete_old_otps"}, BOOLEAN)]_vars

(* the store works and the delivery adapter is down *)
SpecNoDelivery == Init /\ [][NextWithFailures({}, {FALSE})]_vars

TypeOK ==
    /\ Spent \in 0..MaxSteps
    /\ \A e \in otpcodes : e.attempts \in 0..otp_max_attempts

----------------------------------------------------------------------------
(* Properties.  In a step that leaves the clock alone and changes the      *)
(* state, one request was served and resp' is its response.                *)

RequestStep == now' = now

OtpsOf(table, id) == {e \in table : e.PartitionKey = id}

UnusedOtpsOf(table, id) == {e \in table : e.PartitionKey = id /\ ~e.isUsed}

Issued(r) == r.op = "send-otp" /\ r.status # 429

\* C1: immediately after every send-otp that is not rate-limited, the
\* identity has exactly one OTP record with isUsed = FALSE.
C1_OneUnusedAfterIssue ==
    Issued(resp) => Cardinality(UnusedOtpsOf(otpcodes, Lower(resp.email))) = 1

(* The second issue of a run, for an identity whose first, never verified  *)
(* record it replaced.                                                     *)
C1_Witness ==
    /\ Issued(resp)
    /\ nextRow = 3 /\ nextToken = 1
    /\ Cardinality(otpcodes) = 1

\* C10: after a send-otp that is not rate-limited the store holds exactly one
\* OTP record for the identity, the new one, with attempts = 0, isUsed = FALSE
\* and expiresAt = issue time + otp_expiry_minutes; every earlier record of the
\* identity is gone and the records of other identities are unchanged.
C10_IssueLeavesOnlyNewRecord ==
    [][(RequestStep /\ Issued(resp')) =>
        LET id == Lower(resp'.email)
            mine == OtpsOf(otpcodes', id)
        IN  /\ Cardinality(mine) = 1
            /\ \A e \in mine :
                 /\ e.attempts = 0 /\ ~e.isUsed
                 /\ e.code = resp'.code
                 /\ e.createdAt = now
                 /\ e.expiresAt = now + otp_expiry_minutes
                 /\ \A old \in otpcodes : old.RowKey # e.RowKey
            /\ otpcodes' \ mine = otpcodes \ OtpsOf(otpcodes, id)]_vars

(* An issue that purged the identity's earlier, used record while another  *)
(* identity holds a record.                                                *)
C10_Witness ==
    /\ Issued(resp)
    /\ nextRow = 4
    /\ Cardinality(OtpsOf(otpcodes, Lower(resp.email))) = 1
    /\ \E s \in usersessions : s.PartitionKey = Lower(resp.email)
    /\ \E e \in otpcodes : e.PartitionKey # Lower(resp.email)

VerifyServed(r) == r.op = "verify-otp"

\* C2: a verify-otp with the correct code, made while now <= expires_at and
\* attempts < otp_max_attempts, succeeds (also after earlier wrong attempts),
\* and every later verify-otp with that code for the identity, with no new
\* issue in between, fails with the not-found outcome.
C2_CorrectCodeSucceedsOnce ==
    [][(RequestStep /\ VerifyServed(resp')) =>
        LET id == Lower(resp'.email)
        IN  /\ (\E e \in UnusedOtpsOf(otpcodes, id) :
                    /\ e.code = resp'.code
                    /\ now <= e.expiresAt
                    /\ e.attempts < otp_max_attempts)
                 => /\ resp'.outcome = "Success" /\ resp'.status = 200
                    /\ Cardinality(usersessions') = Cardinality(usersessions) + 1
            /\ resp'.code \in hist[id].verified
                 => /\ resp'.outcome = "NotFound" /\ resp'.status = 400
                    /\ usersessions' = usersessions]_vars

(* The code that succeeded after a wrong attempt is presented again. *)
C2_Witness ==
    /\ VerifyServed(resp) /\ resp.outcome = "NotFound"
    /\ resp.code \in hist[Lower(resp.email)].verified
    /\ hist[Lower(resp.email)].invalid > 0

\* C3: after otp_max_attempts wrong-code verify-otp requests against one OTP
\* record, the next verify-otp for the identity before the record's expiry
\* fails with AttemptsExhausted, whatever its code, and creates no session.
C3_ExhaustedAfterMaxWrong ==
    [][(RequestStep /\ VerifyServed(resp')) =>
        LET id == Lower(resp'.email)
        IN  (/\ hist[id].invalid >= otp_max_attempts
             /\ \E e \in UnusedOtpsOf(otpcodes, id) : now <= e.expiresAt)
              => /\ resp'.outcome = "AttemptsExhausted" /\ resp'.status = 400
                 /\ usersessions' = usersessions
                 /\ otpcodes' = otpcodes]_vars

(* The correct code is refused after three wrong ones. *)
C3_Witness ==
    /\ VerifyServed(resp) /\ resp.outcome = "AttemptsExhausted"
    /\ hist[Lower(resp.email)].invalid = otp_max_attempts
    /\ \E e \in UnusedOtpsOf(otpcodes, Lower(resp.email)) : e.code = resp.code
    /\ usersessions = {}

SameEntity(e, f) == e.PartitionKey = f.PartitionKey /\ e.RowKey = f.RowKey

\* C4: the attempts counter of an OTP record changes only in a verify-otp that
\* ends with InvalidCode, where it grows by exactly 1 and the other fields stay
\* unchanged; a verify-otp with any other outcome leaves attempts unchanged.
C4_AttemptsOnlyOnInvalidCode ==
    [][/\ \A e \in otpcodes, f \in otpcodes' :
            (SameEntity(e, f) /\ e.attempts # f.attempts)
              => /\ RequestStep /\ VerifyServed(resp')
                 /\ resp'.outcome = "InvalidCode"
                 /\ e.PartitionKey = Lower(resp'.email)
                 /\ f = [e EXCEPT !.attempts = e.attempts + 1]
       /\ (RequestStep /\ VerifyServed(resp') /\ resp'.outcome = "InvalidCode")
            => \E e \in UnusedOtpsOf(otpcodes, Lower(resp'.email)) :
                 otpcodes' = (otpcodes \ {e}) \cup {[e EXCEPT !.attempts = e.attempts + 1]}
       /\ (RequestStep /\ VerifyServed(resp') /\ resp'.outcome # "InvalidCode")
            => \A e \in otpcodes : \E f \in otpcodes' :
                 SameEntity(e, f) /\ f.attempts = e.attempts]_vars

(* A second wrong guess has been counted. *)
C4_Witness ==
    /\ VerifyServed(resp) /\ resp.outcome = "InvalidCode"
    /\ \E e \in UnusedOtpsOf(otpcodes, Lower(resp.email)) : e.attempts = 2

\* C8: verify-otp decides its outcome in the order NotFound, Expired
\* (now > expires_at), AttemptsExhausted (attempts >= otp_max_attempts),
\* InvalidCode, success; the code is compared only when the first three pass.
C8_VerifyOrder ==
    [][(RequestStep /\ VerifyServed(resp')) =>
        LET live == UnusedOtpsOf(otpcodes, Lower(resp'.email))
        IN  /\ live = {} => resp'.outcome = "NotFound"
            /\ \A e \in live :
                 /\ now > e.expiresAt => resp'.outcome = "Expired"
                 /\ (now <= e.expiresAt /\ e.attempts >= otp_max_attempts)
                      => resp'.outcome = "AttemptsExhausted"
                 /\ (now <= e.expiresAt /\ e.attempts < otp_max_attempts
                        /\ e.code # resp'.code)
                      => resp'.outcome = "InvalidCode"
                 /\ (now <= e.expiresAt /\ e.attempts < otp_max_attempts
                        /\ e.code = resp'.code)
                      => resp'.outcome = "Success"
            /\ resp'.status = IF resp'.outcome = "Success" THEN 200 ELSE 400]_vars

(* A record that is both exhausted and expired is reported as expired. *)
C8_Witness ==
    /\ VerifyServed(resp) /\ resp.outcome = "Expired"
    /\ \E e \in UnusedOtpsOf(otpcodes, Lower(resp.email)) :
         e.attempts >= otp_max_attempts /\ now > e.expiresAt

SendServed(r) == r.op = "send-otp"

\* C5 as stated: after a send-otp issued a record for the identity at time t,
\* every send-otp for it at a time t' with t' - t < otp_rate_limit_minutes
\* fails with RateLimited, whatever verify-otp requests happened in between,
\* and one at t' - t >= otp_rate_limit_minutes is not rate-limited.
C5_RateLimitedWhateverVerifies ==
    [][(RequestStep /\ SendServed(resp')) =>
        LET h == hist[Lower(resp'.email)]
        IN  h.issuedAt # NoTime =>
              IF now - h.issuedAt < otp_rate_limit_minutes
              THEN resp'.outcome = "RateLimited" /\ resp'.status = 429
              ELSE resp'.status # 429]_vars

\* C5 amended: after the latest send-otp that issued a record for the identity
\* at time t, a send-otp for it at t' with t' - t < otp_rate_limit_minutes
\* fails with RateLimited (429) unless a verify-otp for the identity has
\* succeeded since that issue, in which case it is not rate-limited; wrong,
\* expired and exhausted verifies in between change nothing; a send-otp at
\* t' - t >= otp_rate_limit_minutes is not rate-limited.
C5_RateLimitedUnlessVerified ==
    [][(RequestStep /\ SendServed(resp')) =>
        LET h == hist[Lower(resp'.email)]
        IN  h.issuedAt # NoTime =>
              IF now - h.issuedAt < otp_rate_limit_minutes /\ h.verified = {}
              THEN /\ resp'.outcome = "RateLimited" /\ resp'.status = 429
                   /\ otpcodes' = otpcodes
              ELSE resp'.status # 429]_vars

(* A send inside the window is refused after a wrong guess in between. *)
C5_Witness ==
    /\ SendServed(resp) /\ resp.outcome = "RateLimited"
    /\ hist[Lower(resp.email)].invalid > 0

----------------------------------------------------------------------------
(* Properties of the gate, checked under SpecLlm *)

GateServed(r) == r.op = "llm"

HasBearerPrefix(h) == Len(h) >= 7 /\ \A i \in 1..7 : h[i] = Bearer[i]

BearerToken(h) == [i \in 1..(Len(h) - 7) |-> h[i + 7]]

SessionsOf(table, h) == {s \in table : s.RowKey = BearerToken(h)}

SessionAccepted(r) == r.outcome \in {"Authorized", "Forbidden"}

\* C6 as stated: validation of a stored token succeeds at every time
\* now < expires_at and is rejected as expired at every time now >= expires_at,
\* including the instant now = expires_at; once rejected as expired, the token
\* never validates again.
C6_ExpiredFromExpiresAt ==
    [][/\ (RequestStep /\ GateServed(resp') /\ HasBearerPrefix(resp'.authorization))
            => \A s \in SessionsOf(usersessions, resp'.authorization) :
                 IF now < s.expiresAt
                 THEN SessionAccepted(resp')
                 ELSE resp'.outcome = "SessionExpired" /\ resp'.status = 401
       /\ \A s \in usersessions :
            now >= s.expiresAt => (s \in usersessions' /\ now' >= s.expiresAt)]_vars

\* What the gate does instead of C6 (expires_at < utcnow()): validation of a
\* stored token succeeds at every time now <= expires_at, including the
\* instant now = expires_at, and is rejected as expired at every time
\* now > expires_at; once rejected as expired, the token never validates again.
C6_ExpiredAfterExpiresAt ==
    [][/\ (RequestStep /\ GateServed(resp') /\ HasBearerPrefix(resp'.authorization))
            => \A s \in SessionsOf(usersessions, resp'.authorization) :
                 IF now <= s.expiresAt
                 THEN SessionAccepted(resp')
                 ELSE resp'.outcome = "SessionExpired" /\ resp'.status = 401
       /\ \A s \in usersessions :
            now > s.expiresAt => (s \in usersessions' /\ now' > s.expiresAt)]_vars

(* A token is accepted at the very instant its session expires. *)
C6_Witness ==
    /\ GateServed(resp) /\ SessionAccepted(resp)
    /\ \E s \in SessionsOf(usersessions, resp.authorization) : now = s.expiresAt

(* the non-blank entries of the allow-list setting, trimmed *)
AllowListEntries ==
    LET parts == SplitComma(llm_allowed_emails)
    IN  {Strip(parts[i]) : i \in DOMAIN parts} \ {<<>>}

EqualUpToCase(x, y) ==
    Len(x) = Len(y) /\ \A i \in 1..Len(x) : LowerChar(x[i]) = LowerChar(y[i])

\* C7: for a valid, unexpired session the allow-list check passes for every
\* identity when the configured allow-list is empty; when it is not empty it
\* passes exactly for the identities equal to a list entry up to letter case,
\* and every other identity is rejected as Forbidden (403).
C7_AllowListCheck ==
    [][(RequestStep /\ GateServed(resp') /\ HasBearerPrefix(resp'.authorization))
        => \A s \in SessionsOf(usersessions, resp'.authorization) :
             now <= s.expiresAt =>
               IF \/ AllowListEntries = {}
                  \/ \E x \in AllowListEntries : EqualUpToCase(x, s.PartitionKey)
               THEN resp'.outcome = "Authorized" /\ resp'.status = 200
               ELSE resp'.outcome = "Forbidden" /\ resp'.status = 403]_vars

(* An identity passes through an entry written in another letter case      *)
(* while the list holds no entry for other identities.                     *)
C7_Witness ==
    /\ GateServed(resp) /\ resp.outcome = "Authorized"
    /\ llm_allowed_emails = <<"A">>
    /\ \E s \in resp.session : s.PartitionKey = <<"a">>

\* C9: the gate rejects in the order: header without the "Bearer " prefix
\* (401, no store lookup), token without session record (401), expired session
\* (401), identity not on a non-empty allow-list (403); 403 is returned only
\* for an existing, unexpired session and the session is returned only when
\* all four checks pass.
C9_GateOrder ==
    [][(RequestStep /\ GateServed(resp')) =>
        LET h == resp'.authorization
        IN  /\ IF ~HasBearerPrefix(h)
               THEN /\ resp'.outcome = "MalformedHeader" /\ resp'.status = 401
                    /\ resp'.calls = <<>>
               ELSE IF SessionsOf(usersessions, h) = {}
               THEN resp'.outcome = "InvalidSession" /\ resp'.status = 401
               ELSE \A s \in SessionsOf(usersessions, h) :
                      IF now > s.expiresAt
                      THEN resp'.outcome = "SessionExpired" /\ resp'.status = 401
                      ELSE IF ~IsEmailAllowedForLlm(llm_allowed_emails, s.PartitionKey)
                      THEN resp'.outcome = "Forbidden" /\ resp'.status = 403
                      ELSE resp'.outcome = "Authorized" /\ resp'.status = 200
            /\ resp'.status = 403 =>
                 /\ HasBearerPrefix(h)
                 /\ \E s \in SessionsOf(usersessions, h) : now <= s.expiresAt
            /\ resp'.session # {} =>
                 /\ resp'.status = 200 /\ HasBearerPrefix(h)
                 /\ resp'.session \subseteq SessionsOf(usersessions, h)
                 /\ \A s \in resp'.session :
                      /\ now <= s.expiresAt
                      /\ IsEmailAllowedForLlm(llm_allowed_emails, s.PartitionKey)
            /\ resp'.status = 200 => resp'.session # {}]_vars

(* An expired session of an identity that is not on the allow-list is      *)
(* answered 401, not 403.                                                  *)
C9_Witness ==
    /\ GateServed(resp) /\ resp.outcome = "SessionExpired" /\ resp.status = 401
    /\ \E s \in SessionsOf(usersessions, resp.authorization) :
         ~IsEmailAllowedForLlm(llm_allowed_emails, s.PartitionKey)

----------------------------------------------------------------------------
(* Properties of the session table and of used records *)

Succeeded(r) == VerifyServed(r) /\ r.outcome = "Success"

\* C11: a session record is created only by a verify-otp that ends in
\* success: a verify-otp that ends with NotFound, Expired, AttemptsExhausted or
\* InvalidCode (all 400) and every send-otp leave the session records
\* unchanged, and each successful verify-otp adds exactly one session record.
C11_SessionOnlyOnSuccess ==
    [][/\ usersessions' # usersessions => (RequestStep /\ Succeeded(resp'))
       /\ (RequestStep /\ Succeeded(resp'))
            => /\ resp'.status = 200
               /\ usersessions \subseteq usersessions'
               /\ Cardinality(usersessions' \ usersessions) = 1
               /\ \A s \in usersessions' \ usersessions :
                    s.PartitionKey = Lower(resp'.email) /\ resp'.session = {s}
       /\ (RequestStep /\ VerifyServed(resp') /\ ~Succeeded(resp'))
            => /\ resp'.status = 400
               /\ resp'.outcome \in {"NotFound", "Expired", "AttemptsExhausted",
                                     "InvalidCode"}]_vars

(* The second successful verification has added the second session. *)
C11_Witness ==
    /\ Succeeded(resp)
    /\ Cardinality(usersessions) = 2

\* C12: validating a token through the gate never changes a session record:
\* expiresAt and lastAccessedAt keep the values set at creation, and no
\* operation deletes a session record.
C12_SessionsNeverChange ==
    [][/\ \A s \in usersessions : s \in usersessions'
       /\ (RequestStep /\ GateServed(resp')) => usersessions' = usersessions
       /\ \A s \in usersessions' :
            /\ s.lastAccessedAt = s.createdAt
            /\ s.expiresAt = s.createdAt + session_expiry_days * MinutesPerDay]_vars

(* A token is accepted a minute after the login and the session still      *)
(* carries the time of the login.                                          *)
C12_Witness ==
    /\ GateServed(resp) /\ resp.outcome = "Authorized"
    /\ \E s \in resp.session : s.lastAccessedAt < now /\ s \in usersessions

UsedOtpsOf(table, id) == {e \in table : e.PartitionKey = id /\ e.isUsed}

\* C13: once an OTP record has isUsed = TRUE it is inert: isUsed never returns
\* to FALSE, attempts never changes, no verify-otp is evaluated against it, it
\* is not counted by the rate-limit check, and it only disappears when the
\* next issue for its identity purges it.
C13_UsedRecordInert ==
    [][/\ \A e \in otpcodes :
            e.isUsed =>
              \/ e \in otpcodes'
              \/ /\ RequestStep /\ Issued(resp')
                 /\ Lower(resp'.email) = e.PartitionKey
                 /\ \A f \in otpcodes' : ~SameEntity(e, f)
       /\ (RequestStep /\ VerifyServed(resp')
             /\ UsedOtpsOf(otpcodes, Lower(resp'.email)) # {}
             /\ UnusedOtpsOf(otpcodes, Lower(resp'.email)) = {})
            => resp'.outcome = "NotFound" /\ otpcodes' = otpcodes
       /\ (RequestStep /\ SendServed(resp')
             /\ UnusedOtpsOf(otpcodes, Lower(resp'.email)) = {})
            => resp'.status # 429]_vars

(* The next issue, made at the instant of the verification, has purged the *)
(* used record.                                                            *)
C13_Witness ==
    /\ Issued(resp)
    /\ hist[Lower(resp.email)].issuedAt = now
    /\ UsedOtpsOf(otpcodes, Lower(resp.email)) = {}
    /\ \E s \in usersessions :
         s.PartitionKey = Lower(resp.email) /\ s.createdAt = now

(* The unused records of the identity that can no longer be verified at t: *)
(* past their expiry, or with the attempts used up.                        *)
DeadOtpsOf(table, id, t) ==
    {e \in UnusedOtpsOf(table, id) :
        t > e.expiresAt \/ e.attempts >= otp_max_attempts}

IssuedFor(id) == RequestStep /\ Issued(resp') /\ Lower(resp'.email) = id

\* C14: once a verify-otp for an identity has failed with AttemptsExhausted or
\* Expired, every later verify-otp for that identity, with any code, also
\* fails and leaves attempts unchanged until a send-otp issues a new record;
\* until then the record stays in the store.
C14_DeadUntilNextIssue ==
    [][\A id \in Identities :
         /\ (RequestStep /\ VerifyServed(resp') /\ Lower(resp'.email) = id
               /\ resp'.outcome \in {"Expired", "AttemptsExhausted"})
              => DeadOtpsOf(otpcodes', id, now') # {}
         /\ (DeadOtpsOf(otpcodes, id, now) # {} /\ ~IssuedFor(id))
              => /\ DeadOtpsOf(otpcodes', id, now') = DeadOtpsOf(otpcodes, id, now)
                 /\ OtpsOf(otpcodes', id) = OtpsOf(otpcodes, id)
         /\ (DeadOtpsOf(otpcodes, id, now) # {} /\ RequestStep
               /\ VerifyServed(resp') /\ Lower(resp'.email) = id)
              => /\ resp'.status = 400
                 /\ resp'.outcome \in {"Expired", "AttemptsExhausted"}
                 /\ usersessions' = usersessions]_vars

(* The correct code is refused after the attempts were used up. *)
C14_Witness ==
    /\ VerifyServed(resp) /\ resp.outcome = "AttemptsExhausted"
    /\ \E e \in DeadOtpsOf(otpcodes, Lower(resp.email), now) :
         e.code = resp.code /\ now <= e.expiresAt

Count(calls, name) == Cardinality({i \in 1..Len(calls) : calls[i] = name})

\* C15: send-otp calls the delivery adapter at most once per request and only
\* when the request is not rate-limited; when the adapter reports failure the
\* request ends with 500, never success; a rate-limited request (429) sends
\* no email and writes no record.
C15_DeliveryOncePerIssue ==
    [][(RequestStep /\ SendServed(resp'))
         => /\ Count(resp'.calls, "send_otp_email") <= 1
            /\ Count(resp'.calls, "send_otp_email") = 1 <=> resp'.status # 429
            /\ resp'.outcome = "SendFailed" <=> resp'.status = 500
            /\ resp'.outcome = "Sent" <=> resp'.status = 200
            /\ resp'.status \in {200, 429, 500}
            /\ resp'.status = 429
                 => /\ otpcodes' = otpcodes
                    /\ \E e \in UnusedOtpsOf(otpcodes, Lower(resp'.email)) :
                         now - e.createdAt < otp_rate_limit_minutes]_vars

(* The adapter failed: the request ended with 500 after the record was     *)
(* written.                                                                *)
C15_Witness ==
    /\ SendServed(resp) /\ resp.status = 500
    /\ Count(resp.calls, "send_otp_email") = 1
    /\ \E e \in UnusedOtpsOf(otpcodes, Lower(resp.email)) : e.createdAt = now

IsLowerCase(x) == \A i \in 1..Len(x) : LowerChar(x[i]) = x[i]

LiveOtpsOf(table, email) ==
    {e \in table : EqualUpToCase(e.PartitionKey, email) /\ ~e.isUsed}

\* C17: identities are compared up to letter case: send-otp and verify-otp for
\* emails that differ only in case read and write the same OTP record (same
\* rate limit, same attempts counter, same code), and the identity stored in
\* OTP and session records is the lower-cased email.
C17_IdentityUpToCase ==
    [][/\ \A e \in otpcodes' \cup usersessions' : IsLowerCase(e.PartitionKey)
       /\ (RequestStep /\ (SendServed(resp') \/ VerifyServed(resp')))
            => /\ \A e \in (otpcodes' \ otpcodes) \cup (otpcodes \ otpcodes')
                         \cup (usersessions' \ usersessions) :
                    EqualUpToCase(e.PartitionKey, resp'.email)
               /\ resp'.outcome = "NotFound"
                    <=> (VerifyServed(resp') /\ LiveOtpsOf(otpcodes, resp'.email) = {})
               /\ resp'.outcome = "RateLimited"
                    <=> /\ SendServed(resp')
                        /\ \E e \in LiveOtpsOf(otpcodes, resp'.email) :
                             now - e.createdAt < otp_rate_limit_minutes
               /\ resp'.outcome = "InvalidCode"
                    => \E e \in LiveOtpsOf(otpcodes, resp'.email) :
                         /\ e.code # resp'.code
                         /\ [e EXCEPT !.attempts = @ + 1] \in otpcodes'
               /\ resp'.outcome = "Success"
                    => \E e \in LiveOtpsOf(otpcodes, resp'.email) :
                         /\ e.code = resp'.code
                         /\ \E f \in otpcodes' : SameEntity(e, f) /\ f.isUsed]_vars

(* A verification under the upper-case spelling has used up the record and *)
(* opened a session, both stored under the lower-case identity.            *)
C17_Witness ==
    /\ Succeeded(resp) /\ ~IsLowerCase(resp.email)
    /\ \E s \in resp.session : s.PartitionKey # resp.email /\ s \in usersessions
    /\ \E e \in otpcodes :
         e.PartitionKey = Lower(resp.email) /\ e.isUsed /\ e.attempts > 0

LatestOf(entities) == {e \in entities : \A f \in entities : f.createdAt <= e.createdAt}

\* C18: send-otp is rejected as RateLimited if and only if the identity has an
\* unused OTP record whose most recent createdAt is less than
\* otp_rate_limit_minutes before now: at exactly the window length it is
\* allowed, and an identity whose only records are used, or that has no
\* record, is never rate-limited.
C18_RateLimitedIff ==
    [][(RequestStep /\ SendServed(resp'))
         => LET unused == UnusedOtpsOf(otpcodes, Lower(resp'.email))
            IN  /\ resp'.status = 429
                     <=> \E e \in LatestOf(unused) :
                           now - e.createdAt < otp_rate_limit_minutes
                /\ resp'.status = 429 <=> resp'.outcome = "RateLimited"
                /\ (\E e \in LatestOf(unused) :
                      now - e.createdAt = otp_rate_limit_minutes)
                     => Issued(resp')
                /\ unused = {} => Issued(resp')]_vars

(* A send is refused at the instant at which the identity logged in and    *)
(* had a new code issued: the used record did not count, the new one does. *)
C18_Witness ==
    /\ SendServed(resp) /\ resp.status = 429
    /\ \E s \in usersessions :
         s.PartitionKey = Lower(resp.email) /\ s.createdAt = now
    /\ \E e \in UnusedOtpsOf(otpcodes, Lower(resp.email)) : e.createdAt = now

\* C19: for an OTP record that is expired or whose attempts have reached
\* otp_max_attempts, the outcome of verify-otp and the resulting store state
\* do not depend on the candidate code: the outcome is determined by the
\* record and the clock alone and the store is left as it was, for the
\* correct code as for a wrong one.
C19_DeadRecordIgnoresCode ==
    [][\A id \in Identities :
         (DeadOtpsOf(otpcodes, id, now) # {} /\ RequestStep
            /\ VerifyServed(resp') /\ Lower(resp'.email) = id)
           => /\ resp'.outcome =
                   IF \E e \in DeadOtpsOf(otpcodes, id, now) : now > e.expiresAt
                   THEN "Expired" ELSE "AttemptsExhausted"
              /\ resp'.status = 400
              /\ resp'.session = {}
              /\ resp'.calls = <<"get_latest_otp">>
              /\ UNCHANGED <<otpcodes, usersessions, nextRow, nextToken, hist>>]_vars

(* The correct code was refused as expired, as a wrong one would be. *)
C19_Witness ==
    /\ VerifyServed(resp) /\ resp.outcome = "Expired"
    /\ \E e \in DeadOtpsOf(otpcodes, Lower(resp.email), now) :
         e.code = resp.code /\ e.attempts > 0

----------------------------------------------------------------------------
(* Properties of concurrent handlers, checked under SpecConc *)

IncrementWritten(h) ==
    handlers[h].pc = "increment_update" /\ handlers'[h].pc = "idle"

\* C20: with concurrent handlers the increment of attempts is a read followed
\* by a write of the value read plus one, whatever the store holds by then: a
\* record's attempts never exceeds the number of completed InvalidCode
\* outcomes for its identity, and two overlapping wrong-code verify-otp
\* requests can both read attempts = 0 and both write attempts = 1, which
\* leaves the stored counter below the number of completed InvalidCode
\* outcomes.
C20_IncrementWritesValueRead ==
    [][/\ \A h \in Handlers :
            IncrementWritten(h) =>
              \A e \in handlers[h].entity :
                \A f \in otpcodes' :
                  (f.PartitionKey = e.PartitionKey /\ f.RowKey = e.RowKey)
                    => f = [e EXCEPT !.attempts = @ + 1]
       /\ \A e \in otpcodes' : e.attempts <= hist'[e.PartitionKey].invalid]_vars

(* Two wrong-code requests have overlapped and both ended with InvalidCode, *)
(* and the record counts one attempt.                                       *)
C20_Witness ==
    /\ \A h \in Handlers : handlers[h].pc = "idle"
    /\ resp.outcome = "InvalidCode"
    /\ \E e \in UnusedOtpsOf(otpcodes, Lower(resp.email)) :
         /\ e.attempts = 1
         /\ hist[e.PartitionKey].invalid = 2

SessionCreatedBy(h) ==
    handlers[h].pc = "create_session" /\ handlers'[h].pc = "idle"

\* C21: under every interleaving of concurrent verify-otp requests for the
\* same identity at most one of them succeeds for a given OTP record, so at
\* most one session record is ever created per issued OTP record: no request
\* ends in success for a record for which a session was created before.
C21_OneSuccessPerRecord ==
    [][\A h \in Handlers :
         SessionCreatedBy(h)
           => handlers[h].row_key \notin hist[Lower(handlers[h].email)].succeeded]_vars

AllIdle == \A h \in Handlers : handlers[h].pc = "idle"

\* C22: under every interleaving of concurrent send-otp requests for the same
\* identity, once all of them have completed the identity has at most one
\* unused OTP record, and a request that reported success delivered the code
\* of a record that is still in the store.
C22_OneUnusedAfterConcurrentSends ==
    AllIdle =>
      /\ \A id \in Identities : Cardinality(UnusedOtpsOf(otpcodes, id)) <= 1
      /\ (SendServed(resp) /\ resp.status = 200)
           => \E e \in OtpsOf(otpcodes, Lower(resp.email)) : e.code = resp.code

----------------------------------------------------------------------------
(* Properties of requests served while store calls raise *)

Raised(calls, name) ==
    \E i \in 1..(Len(calls) - 1) : calls[i] = name /\ calls[i + 1] = "raised"

\* C23: the purge and the create of an issue behave as one logical step with
\* the new record created before the old ones are purged: at no intermediate
\* point of a non-rate-limited send-otp, and after no crash or store failure
\* between its two store steps, does an identity that had an OTP record end
\* up with zero OTP records.
C23_NeverLeftWithoutRecord ==
    [][\A id \in Identities :
         OtpsOf(otpcodes, id) # {} => OtpsOf(otpcodes', id) # {}]_vars

(* the records of the identity that were issued last; row keys are numbered *)
(* in the order of the issues                                               *)
NewestOtpsOf(table, id) ==
    {e \in OtpsOf(table, id) : \A f \in OtpsOf(table, id) : f.RowKey <= e.RowKey}

\* C24: a store failure during the cleanup of old OTP records (none or only
\* some of them deleted) does not affect the primary flow: send-otp still
\* issues the new record, and every later verify-otp for the identity is
\* evaluated against the newly issued record, never against a surviving older
\* one, so the superseded code is not accepted.
C24_CleanupFailureHarmless ==
    [][RequestStep =>
        LET id == Lower(resp'.email)
        IN  /\ (SendServed(resp') /\ Raised(resp'.calls, "delete_old_otps"))
                 => /\ Issued(resp')
                    /\ \E e \in NewestOtpsOf(otpcodes', id) :
                         e.createdAt = now /\ e.code = resp'.code /\ ~e.isUsed
            /\ Succeeded(resp')
                 => \E e \in NewestOtpsOf(otpcodes, id) :
                      /\ e.code = resp'.code
                      /\ hist'[id].succeeded = hist[id].succeeded \cup {e.RowKey}
            /\ (VerifyServed(resp') /\ resp'.outcome = "InvalidCode")
                 => \E e \in NewestOtpsOf(otpcodes, id) :
                      [e EXCEPT !.attempts = @ + 1] \in otpcodes'
            /\ (VerifyServed(resp') /\ OtpsOf(otpcodes, id) # {}
                  /\ \A e \in NewestOtpsOf(otpcodes, id) : e.isUsed)
                 => resp'.outcome = "NotFound"]_vars

\* C25: a store failure while reading the latest OTP record in send-otp or
\* verify-otp, or while reading the session in token validation, is
\* propagated as an error outcome and is never treated as "no record found":
\* a failed read during send-otp does not let the request pass the rate-limit
\* check.
C25_FailedReadIsAnError ==
    [][(RequestStep /\ (Raised(resp'.calls, "get_latest_otp")
                          \/ Raised(resp'.calls, "get_session")))
         => /\ resp'.outcome = "StoreError"
            /\ resp'.status >= 500
            /\ otpcodes' = otpcodes]_vars

\* C26: a verify-otp reports success and creates a session only after the OTP
\* record has been persisted with isUsed = TRUE, and reports InvalidCode only
\* after the incremented attempts value has been persisted: when the store
\* write of either update fails, the request does not end with a created
\* session or with an uncounted wrong guess.
C26_OutcomeOnlyAfterPersisted ==
    [][(RequestStep /\ VerifyServed(resp')) =>
        LET id == Lower(resp'.email)
        IN  /\ Succeeded(resp')
                 => \A r \in hist'[id].succeeded \ hist[id].succeeded :
                      \E e \in otpcodes' :
                        e.PartitionKey = id /\ e.RowKey = r /\ e.isUsed
            /\ usersessions' # usersessions
                 => ~Raised(resp'.calls, "mark_otp_used")
            /\ resp'.outcome = "InvalidCode"
                 => /\ ~Raised(resp'.calls, "increment_otp_attempts")
                    /\ \E e \in otpcodes :
                         /\ e.PartitionKey = id
                         /\ [e EXCEPT !.attempts = @ + 1] \in otpcodes']_vars

\* C28: in every reachable state, under every interleaving of concurrent
\* send-otp and verify-otp requests, the attempts counter of every OTP record
\* is between 0 and otp_max_attempts, and the number of verify-otp requests
\* whose candidate code is compared with one record's code is at most
\* otp_max_attempts wrong ones plus one correct one (counted while the
\* identity's first record is its only one).
C28_AttemptsBounded ==
    /\ \A e \in otpcodes : e.attempts \in 0..otp_max_attempts
    /\ nextRow = 2
         => /\ \A id \in Identities : hist[id].invalid <= otp_max_attempts
            /\ Cardinality(usersessions) <= 1

----------------------------------------------------------------------------
(* Recovery, the frame of a refused send, and an adapter that is down *)

WindowElapsed(table, id, t) ==
    \A e \in UnusedOtpsOf(table, id) : t - e.createdAt >= otp_rate_limit_minutes

\* C27: no identity is locked out forever: from every reachable state (record
\* used, expired, exhausted or absent), with a working store and adapter, a
\* send-otp for the identity made at least otp_rate_limit_minutes after its
\* latest unused record was created succeeds and leaves a fresh record as the
\* identity's only one, and a following verify-otp with the new code before
\* its expiry succeeds.
C27_NoLockout ==
    [][RequestStep =>
        LET id == Lower(resp'.email)
        IN  /\ (SendServed(resp') /\ WindowElapsed(otpcodes, id, now))
                 => /\ Issued(resp')
                    /\ resp'.outcome # "SendFailed" => resp'.status = 200
                    /\ \E e \in otpcodes' :
                         /\ OtpsOf(otpcodes', id) = {e}
                         /\ e.code = resp'.code /\ ~e.isUsed /\ e.attempts = 0
                         /\ e.createdAt = now
                         /\ e.expiresAt = now + otp_expiry_minutes
            /\ (VerifyServed(resp')
                  /\ \E e \in UnusedOtpsOf(otpcodes, id) :
                       e.attempts = 0 /\ now <= e.expiresAt /\ e.code = resp'.code)
                 => Succeeded(resp') /\ resp'.status = 200]_vars

(* The identity's first record was never verified; after a step of the     *)
(* clock a second one was issued and its code has opened the identity's    *)
(* only session.                                                           *)
C27_Witness ==
    /\ Succeeded(resp)
    /\ nextRow = 3 /\ ticks >= 1
    /\ \A e \in otpcodes : e.PartitionKey = Lower(resp.email) /\ e.RowKey = 2
    /\ \A id \in Identities \ {Lower(resp.email)} : hist[id].issuedAt = NoTime
    /\ hist[Lower(resp.email)].issuedAt >= otp_rate_limit_minutes
    /\ Cardinality(usersessions) = 1

\* C29: a send-otp that is rejected as RateLimited leaves the store unchanged:
\* the existing unused record keeps its code, createdAt, expiresAt and
\* attempts, so repeating send-otp inside the rate-limit window can neither
\* reset the attempts counter nor extend the expiry or the rate-limit window.
C29_RefusedSendChangesNothing ==
    [][(RequestStep /\ SendServed(resp')) =>
        LET id == Lower(resp'.email)
        IN  /\ resp'.status = 429
                 => UNCHANGED <<otpcodes, usersessions, nextRow, nextToken, hist>>
            /\ ~WindowElapsed(otpcodes, id, now)
                 => /\ UnusedOtpsOf(otpcodes', id) = UnusedOtpsOf(otpcodes, id)
                    /\ resp'.status = 429]_vars

(* A send inside the window is refused for a record whose attempts are     *)
(* used up: the counter stays where it is.                                 *)
C29_Witness ==
    /\ SendServed(resp) /\ resp.status = 429
    /\ \E e \in UnusedOtpsOf(otpcodes, Lower(resp.email)) :
         e.attempts = otp_max_attempts /\ e.createdAt = now

\* C30: when the delivery adapter fails, the OTP record written by that
\* send-otp stays in the store as the identity's live unused record (the
\* earlier records are purged), so the next send-otp for the identity inside
\* the rate-limit window is rejected as RateLimited although no code was
\* delivered, and a verify-otp with the undelivered code succeeds.
C30_UndeliveredCodeIsLive ==
    [][RequestStep =>
        LET id == Lower(resp'.email)
        IN  /\ (SendServed(resp') /\ resp'.outcome = "SendFailed")
                 => /\ resp'.status = 500
                    /\ \E e \in otpcodes' :
                         /\ OtpsOf(otpcodes', id) = {e}
                         /\ e.code = resp'.code /\ ~e.isUsed /\ e.createdAt = now
            /\ (SendServed(resp') /\ hist[id].issuedAt # NoTime
                  /\ hist[id].succeeded = {}
                  /\ now - hist[id].issuedAt < otp_rate_limit_minutes)
                 => resp'.status = 429 /\ otpcodes' = otpcodes
            /\ (VerifyServed(resp')
                  /\ \E e \in UnusedOtpsOf(otpcodes, id) :
                       /\ e.code = resp'.code /\ now <= e.expiresAt
                       /\ e.attempts < otp_max_attempts)
                 => Succeeded(resp')]_vars

(* The adapter never delivered a code, and the code of the one record      *)
(* issued has opened a session after a wrong guess.                        *)
C30_Witness ==
    /\ Succeeded(resp)
    /\ nextRow = 2
    /\ hist[Lower(resp.email)].invalid > 0
    /\ \E e \in otpcodes : e.code = resp.code /\ e.isUsed /\ e.attempts > 0

----------------------------------------------------------------------------
(* The identity of a session *)

\* C31: a session is bound to the identity whose OTP was verified: every
\* session record with identity e is created by a verify-otp for e whose
\* candidate code equals the code of e's latest unused record at that moment,
\* and a code issued to one identity never makes a verify-otp for another
\* identity succeed unless that identity's own live record has the same code.
C31_SessionBoundToIdentity ==
    [][/\ \A s \in usersessions' \ usersessions :
            /\ RequestStep /\ Succeeded(resp')
            /\ EqualUpToCase(s.PartitionKey, resp'.email)
            /\ \E e \in LatestOf(UnusedOtpsOf(otpcodes, s.PartitionKey)) :
                 e.code = resp'.code
       /\ (RequestStep /\ VerifyServed(resp')
             /\ \A e \in otpcodes :
                  (EqualUpToCase(e.PartitionKey, resp'.email) /\ ~e.isUsed)
                    => e.code # resp'.code)
            => /\ ~Succeeded(resp')
               /\ usersessions' = usersessions]_vars

(* An identity has logged in with its own code, after the code that is     *)
(* live for another identity was refused for it.                           *)
C31_Witness ==
    /\ Succeeded(resp)
    /\ hist[Lower(resp.email)].invalid > 0
    /\ \E s \in resp.session : s.PartitionKey = Lower(resp.email)
    /\ \E e \in otpcodes :
         /\ e.PartitionKey # Lower(resp.email)
         /\ ~e.isUsed /\ e.code # resp.code /\ now <= e.expiresAt

----------------------------------------------------------------------------
(* A verification that overlaps with an issue, checked under SpecConc *)

\* C32: under every interleaving of a verify-otp with a send-otp for the same
\* identity, a verify-otp does not create a session from a record that a
\* completed send-otp has already purged: if the record read by verify-otp is
\* deleted before it is marked used the verify-otp does not end in success,
\* and no purged record reappears in the store.
C32_NoSessionFromPurgedRecord ==
    [][/\ \A h \in Handlers :
            SessionCreatedBy(h) => handlers[h].entity # {}
       /\ \A e \in otpcodes' :
            \/ \E f \in otpcodes : SameEntity(e, f)
            \/ e.RowKey = nextRow /\ nextRow' = nextRow + 1]_vars

----------------------------------------------------------------------------
(* The parsed allow-list, checked under SpecLlm *)

(* the positions lo..hi of the setting that hold one entry: no comma       *)
(* inside, no blank at either end, and nothing but blanks between the      *)
(* entry and the commas (or the ends of the setting) around it             *)
EntrySpans ==
    LET s == llm_allowed_emails
        Blank(i) == s[i] = " "
        Comma(i) == s[i] = ","
    IN  {sp \in (DOMAIN s) \X (DOMAIN s) :
           /\ sp[1] <= sp[2]
           /\ \A i \in sp[1]..sp[2] : ~Comma(i)
           /\ ~Blank(sp[1]) /\ ~Blank(sp[2])
           /\ \A i \in 1..(sp[1] - 1) :
                Blank(i) \/ \E j \in i..(sp[1] - 1) : Comma(j)
           /\ \A i \in (sp[2] + 1)..Len(s) :
                Blank(i) \/ \E j \in (sp[2] + 1)..i : Comma(j)}

OnlyCommasAndBlanks(s) == \A i \in DOMAIN s : s[i] \in {",", " "}

\* C33: the allow-list parsed from the comma-separated llm_allowed_emails
\* setting holds exactly the non-blank entries of the setting, in their
\* order, each trimmed and lower-cased; a non-empty setting of commas and
\* whitespace only parses to the empty list, and then every identity with a
\* valid, unexpired session is let through.
C33_ParsedAllowList ==
    LET allowed == LlmAllowedEmailsList(llm_allowed_emails)
    IN  /\ Len(allowed) = Cardinality(EntrySpans)
        /\ \A sp \in EntrySpans :
              LET k == Cardinality({t \in EntrySpans : t[1] <= sp[1]})
              IN  /\ Len(allowed[k]) = sp[2] - sp[1] + 1
                  /\ \A i \in 1..Len(allowed[k]) :
                        allowed[k][i] = LowerChar(llm_allowed_emails[sp[1] + i - 1])
        /\ \A k \in DOMAIN allowed :
              /\ allowed[k] # <<>>
              /\ \A i \in DOMAIN allowed[k] : allowed[k][i] \notin {",", "A", "B"}
              /\ allowed[k][1] # " " /\ allowed[k][Len(allowed[k])] # " "
        /\ OnlyCommasAndBlanks(llm_allowed_emails)
              => /\ allowed = <<>>
                 /\ (GateServed(resp) /\ SessionAccepted(resp))
                       => resp.outcome = "Authorized" /\ resp.status = 200

(* A session passes the gate under a setting that is not empty but holds   *)
(* a comma and a blank only.                                               *)
C33_Witness ==
    /\ GateServed(resp) /\ resp.outcome = "Authorized"
    /\ llm_allowed_emails # <<>> /\ OnlyCommasAndBlanks(llm_allowed_emails)
    /\ resp.session # {}

====
